---- MODULE Spec2Model ----
(***************************************************************************)
(* dns-endpoint-pool: the pool manager (round robin over the endpoints    *)
(* that the active policy calls usable, reconciliation of the endpoint    *)
(* set) and its circuit-breaker policies (rolling window of failure       *)
(* timestamps, failure rate over the last outcomes), with the reopen      *)
(* timers the policies arm.                                               *)
(*                                                                         *)
(* Endpoints are objects.  `endpoints` is the manager's array, an object  *)
(* is named by its place in it, and updateEndpoints says where each       *)
(* surviving object went.  An object spliced out of the array is reached  *)
(* again only by the callbacks of its live timeouts: `detached` holds     *)
(* those objects until their last timeout has run (as a set: two detached *)
(* objects in the same state with the same timeouts count as one).        *)
(*                                                                         *)
(* Time.  The code reads Date.now() only to compute                       *)
(* now - oldestErrorTime <= failureWindow, and setTimeout only counts     *)
(* down.  A buffer slot therefore stores the age now - stamp of the       *)
(* failure it records (saturated just above failureWindow), a timer       *)
(* stores the time left before it is due, and Tick lets one time unit     *)
(* pass.                                                                  *)
(*                                                                         *)
(* The EndpointPool around the manager is `pool`: its constructor, the    *)
(* update / resolve cycle with its two timeouts, and stopUpdating.  Spec  *)
(* and SpecBreaker stub update out and call setEndpoints themselves;      *)
(* SpecUpdate lets the DNS feed the pool.  this.lastUpdate, which only    *)
(* goes into the payload of 'updateError', is left out.                   *)
(*                                                                         *)
(* `ring` is a RingBuffer outside any pool, written to and read from as   *)
(* a caller of the class would; SpecRing runs it, the other               *)
(* specifications leave it alone.                                         *)
(*                                                                         *)
(* A caller may call endpoint.callback whenever it holds it, and Spec,    *)
(* SpecBreaker and SpecUpdate let it.  SpecFeedback is the caller that    *)
(* keeps the contract, one callback per selection: `calls` counts the     *)
(* selections of its one endpoint that have not reported yet, by the      *)
(* state the endpoint was selected in.                                    *)
(*                                                                         *)
(* SpecRotation is a pool whose endpoint set stays as it was first set;   *)
(* `waited` counts, for each endpoint, the calls of getEndpoint in a row  *)
(* that found it usable and returned another.                             *)
(***************************************************************************)
EXTENDS Integers, Sequences, FiniteSets, TLC

\* ------------------------------------------------------------------ bounds

\* Longest descriptor list handed to updateEndpoints.
MaxDescs == 2

\* Most writes to the RingBuffer that is run on its own.
MaxWrites == 6

\* Most selections in flight at a time under SpecFeedback.
MaxInflight == 2

\* ------------------------------------------------------- program constants

CLOSED == "CLOSED"
HALF_OPEN_READY == "HALF_OPEN_READY"
HALF_OPEN_PENDING == "HALF_OPEN_PENDING"
OPEN == "OPEN"
\* A field the policy never set (the default manager registers nothing).
Undefined == "undefined"

\* The SRV records a resolve may yield: {name, port}.
Descriptors ==
    { [name |-> "a", port |-> 1], [name |-> "a", port |-> 2] }

\* The options the pool is built with.  failureRate is the fraction
\* rateNum / rateDen; the rates used are dyadic, so that the IEEE product
\* failureRate * failureRateWindow is the exact one.
RollingConfig(maxFailures, failureWindow, resetTimeout) ==
    [kind |-> "rolling", maxFailures |-> maxFailures, failureWindow |-> failureWindow,
     resetTimeout |-> resetTimeout, rateNum |-> 0, rateDen |-> 1, failureRateWindow |-> 0]

RateConfig(rateNum, rateDen, failureRateWindow, resetTimeout) ==
    [kind |-> "rate", maxFailures |-> 0, failureWindow |-> 0,
     resetTimeout |-> resetTimeout, rateNum |-> rateNum, rateDen |-> rateDen,
     failureRateWindow |-> failureRateWindow]

DefaultConfig ==
    [kind |-> "default", maxFailures |-> 0, failureWindow |-> 0,
     resetTimeout |-> 0, rateNum |-> 0, rateDen |-> 1, failureRateWindow |-> 0]

\* The pools checked with several endpoints, and those checked with one.
PoolConfigs == { DefaultConfig, RollingConfig(1, 1, 1) }

BreakerConfigs ==
    { RollingConfig(2, 2, 1), RollingConfig(3, 1, 2),
      RateConfig(1, 2, 2, 1), RateConfig(1, 2, 4, 2) }

\* ------------------------------------------------------------------- state

VARIABLES
    config,          \* the options captured by the policy closures
    endpoints,       \* PoolManager.endpoints: the Endpoint objects, in order
    endpointOffset,  \* PoolManager._endpointOffset
    detached,        \* the objects spliced out that live timeouts still hold
    srvLimit,        \* the discovery source yields at most this many records
    trace,           \* per endpoint of the array: its history (see NewTrace)
    pool,            \* the EndpointPool: its refresh cycle (see NewPool)
    ring,            \* a RingBuffer on its own, with what was written and read
    calls,           \* the selections whose callback has not been called yet
    waited           \* per endpoint: the getEndpoint calls in a row that found
                     \* it usable and returned another

vars ==
    <<config, endpoints, endpointOffset, detached, srvLimit, trace, pool, ring, calls,
      waited>>

\* ------------------------------------------------------------- RingBuffer

\* A slot is <<>> while unset and <<v>> once written.
RingBuffer(size) ==
    [buffer |-> [i \in 1..size |-> <<>>], offset |-> 0, size |-> size]

RingRead(rb) == rb.buffer[rb.offset + 1]

\* write that moves the offset first and stores the value where it then is.
RingWriteAhead(rb, val) ==
    [rb EXCEPT !.buffer[((rb.offset + 1) % rb.size) + 1] = <<val>>,
               !.offset = (rb.offset + 1) % rb.size]

\* write that leaves the offset where it is.
RingWriteInPlace(rb, val) == [rb EXCEPT !.buffer[rb.offset + 1] = <<val>>]

RingWrite(rb, val) ==
    [rb EXCEPT !.buffer[rb.offset + 1] = <<val>>,
               !.offset = (rb.offset + 1) % rb.size]

\* --------------------------------------------------------------- Endpoint

Url(info) == <<info.name, info.port>>

\* timers: the time left of every live (scheduled, neither fired nor cleared)
\* timeout whose callback sets this endpoint's state; reopenTimeout: the
\* handle endpoint._reopenTimeout, as the index in timers of the timeout it
\* names, 0 when it names none that is live.
Endpoint(info) ==
    [name |-> info.name, port |-> info.port, url |-> Url(info),
     state |-> Undefined, buffer |-> RingBuffer(0), errors |-> 0,
     timers |-> <<>>, reopenTimeout |-> 0]

\* ------------------------------------------------------------- sequences

RemoveAt(s, k) == [i \in 1..(Len(s) - 1) |-> IF i < k THEN s[i] ELSE s[i + 1]]

Min(a, b) == IF a <= b THEN a ELSE b

Max(a, b) == IF a >= b THEN a ELSE b

\* ------------------------------------------------- circuit-breaker policy

\* clearInterval(handle): the timeout the handle names is no longer live.
ClearTimer(endpoint) ==
    IF endpoint.reopenTimeout = 0 THEN endpoint
    ELSE [endpoint EXCEPT !.timers = RemoveAt(@, endpoint.reopenTimeout),
                          !.reopenTimeout = 0]

\* setTimeout(callback, options.resetTimeout), its handle kept in the endpoint.
SetTimer(endpoint) ==
    [endpoint EXCEPT !.timers = Append(@, config.resetTimeout),
                     !.reopenTimeout = Len(endpoint.timers) + 1]

\* disableEndpoint without the early return: an endpoint that is OPEN already
\* has its timeout armed anew.
disableEndpointRearm(endpoint) ==
    SetTimer(ClearTimer([endpoint EXCEPT !.state = OPEN]))

\* disableEndpoint that sets its timeout without clearing any, and also when
\* the endpoint is OPEN already.
disableEndpointAddTimer(endpoint) == SetTimer([endpoint EXCEPT !.state = OPEN])

\* disableEndpoint that postpones: an OPEN endpoint's timeout starts over.
disableEndpointPostpone(endpoint) ==
    SetTimer(ClearTimer([endpoint EXCEPT !.state = OPEN]))

disableEndpoint(endpoint) ==
    IF endpoint.state = OPEN THEN endpoint
    ELSE SetTimer(ClearTimer([endpoint EXCEPT !.state = OPEN]))

\* isInPool, but an endpoint whose probe is in flight counts as in the pool.
isInPoolPending(endpoint) ==
    IF config.kind = "default" THEN TRUE
    ELSE endpoint.state # OPEN

isInPool(endpoint) ==
    IF config.kind = "default" THEN TRUE
    ELSE endpoint.state = CLOSED \/ endpoint.state = HALF_OPEN_READY

\* onEndpointSelected that lets every selection through.
onEndpointSelectedThrough(endpoint) == endpoint

onEndpointSelected(endpoint) ==
    IF config.kind # "default" /\ endpoint.state = HALF_OPEN_READY
    THEN [endpoint EXCEPT !.state = HALF_OPEN_PENDING]
    ELSE endpoint

RollingRegistered(endpoint) ==
    [endpoint EXCEPT !.state = CLOSED, !.buffer = RingBuffer(config.maxFailures - 1)]

\* Date.now() is written as age 0.
\* onEndpointReturned of the rolling window whose branch for a buffer of
\* size 0 returns without disabling.
RollingReturnedNoTrip(endpoint, err) ==
    IF err THEN
        IF endpoint.state = OPEN THEN endpoint
        ELSE IF endpoint.buffer.size = 0 THEN endpoint
        ELSE LET oldestErrorTime == RingRead(endpoint.buffer)
                 written == [endpoint EXCEPT !.buffer = RingWrite(@, 0)]
             IN  IF \/ written.state = HALF_OPEN_PENDING
                    \/ (oldestErrorTime # <<>> /\ oldestErrorTime[1] <= config.failureWindow)
                 THEN disableEndpoint(written)
                 ELSE written
    ELSE IF endpoint.state = HALF_OPEN_PENDING THEN [endpoint EXCEPT !.state = CLOSED]
    ELSE endpoint

\* onEndpointReturned of the rolling window without the probe's own rule: a
\* failure trips on the window alone.
RollingReturnedWindowOnly(endpoint, err) ==
    IF err THEN
        IF endpoint.state = OPEN THEN endpoint
        ELSE IF endpoint.buffer.size = 0 THEN disableEndpoint(endpoint)
        ELSE LET oldestErrorTime == RingRead(endpoint.buffer)
                 written == [endpoint EXCEPT !.buffer = RingWrite(@, 0)]
             IN  IF oldestErrorTime # <<>> /\ oldestErrorTime[1] <= config.failureWindow
                 THEN disableEndpoint(written)
                 ELSE written
    ELSE IF endpoint.state = HALF_OPEN_PENDING THEN [endpoint EXCEPT !.state = CLOSED]
    ELSE endpoint

\* onEndpointReturned of the rolling window where a success clears the
\* recorded failures.
RollingReturnedSuccessClears(endpoint, err) ==
    IF err THEN
        IF endpoint.state = OPEN THEN endpoint
        ELSE IF endpoint.buffer.size = 0 THEN disableEndpoint(endpoint)
        ELSE LET oldestErrorTime == RingRead(endpoint.buffer)
                 written == [endpoint EXCEPT !.buffer = RingWrite(@, 0)]
             IN  IF \/ written.state = HALF_OPEN_PENDING
                    \/ (oldestErrorTime # <<>> /\ oldestErrorTime[1] <= config.failureWindow)
                 THEN disableEndpoint(written)
                 ELSE written
    ELSE IF endpoint.state = HALF_OPEN_PENDING THEN [endpoint EXCEPT !.state = CLOSED]
    ELSE [endpoint EXCEPT !.buffer = RingBuffer(@.size)]

RollingReturned(endpoint, err) ==
    IF err THEN
        IF endpoint.state = OPEN THEN endpoint
        ELSE IF endpoint.buffer.size = 0 THEN disableEndpoint(endpoint)
        ELSE LET oldestErrorTime == RingRead(endpoint.buffer)
                 written == [endpoint EXCEPT !.buffer = RingWrite(@, 0)]
             IN  IF \/ written.state = HALF_OPEN_PENDING
                    \/ (oldestErrorTime # <<>> /\ oldestErrorTime[1] <= config.failureWindow)
                 THEN disableEndpoint(written)
                 ELSE written
    ELSE IF endpoint.state = HALF_OPEN_PENDING THEN [endpoint EXCEPT !.state = CLOSED]
    ELSE endpoint

RateRegistered(endpoint) ==
    [endpoint EXCEPT !.state = CLOSED, !.buffer = RingBuffer(config.failureRateWindow),
                     !.errors = 0]

\* errors > maxErrorCount: the threshold itself does not trip.
ExceedsMaxErrorCount(errors) ==
    errors * config.rateDen > config.rateNum * config.failureRateWindow

\* errors >= maxErrorCount, with maxErrorCount = failureRate * failureRateWindow.
ReachesMaxErrorCount(errors) ==
    errors * config.rateDen >= config.rateNum * config.failureRateWindow

\* onEndpointReturned of the rate policy that counts every failure and never
\* takes the evicted outcome off the count.
RateReturnedNoEvict(endpoint, err) ==
    LET state == endpoint.state
        newStatus == IF err THEN 1 ELSE 0
        counted == [endpoint EXCEPT !.buffer = RingWrite(@, newStatus),
                                    !.errors = @ + newStatus]
    IN  IF err /\ (state = HALF_OPEN_PENDING \/ ReachesMaxErrorCount(counted.errors))
        THEN disableEndpoint(counted)
        ELSE IF ~err /\ state = HALF_OPEN_PENDING THEN [counted EXCEPT !.state = CLOSED]
        ELSE counted

RateReturned(endpoint, err) ==
    LET state == endpoint.state
        newStatus == IF err THEN 1 ELSE 0
        oldest == RingRead(endpoint.buffer)
        oldestStatus == IF oldest # <<>> /\ oldest[1] # 0 THEN 1 ELSE 0
        counted == [endpoint EXCEPT !.buffer = RingWrite(@, newStatus),
                                    !.errors = @ + newStatus - oldestStatus]
    IN  IF err /\ (state = HALF_OPEN_PENDING \/ ReachesMaxErrorCount(counted.errors))
        THEN disableEndpoint(counted)
        ELSE IF ~err /\ state = HALF_OPEN_PENDING THEN [counted EXCEPT !.state = CLOSED]
        ELSE counted

onEndpointRegistered(endpoint) ==
    CASE config.kind = "rolling" -> RollingRegistered(endpoint)
      [] config.kind = "rate" -> RateRegistered(endpoint)
      [] OTHER -> endpoint

\* onEndpointReturned that is the rolling window's whatever the manager was
\* built with.
onEndpointReturnedRolling(endpoint, err) == RollingReturned(endpoint, err)

onEndpointReturned(endpoint, err) ==
    CASE config.kind = "rolling" -> RollingReturned(endpoint, err)
      [] config.kind = "rate" -> RateReturned(endpoint, err)
      [] OTHER -> endpoint

\* A reopen callback run by an interval: it stays live after it has run.
ReopenCallbackInterval(endpoint, k) == [endpoint EXCEPT !.state = HALF_OPEN_READY]

\* The reopen timeout's callback: endpoint.state = HALF_OPEN_READY.  The
\* timeout k has fired and is no longer live.
ReopenCallback(endpoint, k) ==
    [endpoint EXCEPT !.state = HALF_OPEN_READY,
                     !.timers = RemoveAt(@, k),
                     !.reopenTimeout = IF @ = k THEN 0 ELSE IF @ > k THEN @ - 1 ELSE @]

\* ------------------------------------------------------------ PoolManager

hasEndpoints(eps) == Len(eps) > 0

\* The for loop of getNextEndpoint at iteration i over l endpoints.  ep is
\* the place in the array of the endpoint returned (offset + 1), 0 when the
\* loop ends without one; inspected counts the candidates isInPool was asked
\* about.
\* Scan, but _endpointOffset is left at the selected endpoint instead of one
\* past it.
RECURSIVE ScanNoAdvance(_, _, _, _)
ScanNoAdvance(eps, off, i, l) ==
    IF i < l THEN
        LET offset == (off + i) % l
            endpoint == eps[offset + 1]
        IN  IF isInPool(endpoint)
            THEN [ep |-> offset + 1,
                  endpoints |-> [eps EXCEPT ![offset + 1] = onEndpointSelected(endpoint)],
                  offset |-> offset, inspected |-> i + 1]
            ELSE ScanNoAdvance(eps, off, i + 1, l)
    ELSE [ep |-> 0, endpoints |-> eps, offset |-> off, inspected |-> i]

\* Scan, but the loop stops one candidate short of a full pass.
RECURSIVE ScanShort(_, _, _, _)
ScanShort(eps, off, i, l) ==
    IF i < l - 1 THEN
        LET offset == (off + i) % l
            endpoint == eps[offset + 1]
        IN  IF isInPool(endpoint)
            THEN [ep |-> offset + 1,
                  endpoints |-> [eps EXCEPT ![offset + 1] = onEndpointSelected(endpoint)],
                  offset |-> offset + 1, inspected |-> i + 1]
            ELSE ScanShort(eps, off, i + 1, l)
    ELSE [ep |-> 0, endpoints |-> eps, offset |-> off, inspected |-> i]

\* The loop, leaving the offset one past where the scan began.
RECURSIVE ScanAdvanceByOne(_, _, _, _)
ScanAdvanceByOne(eps, off, i, l) ==
    IF i < l
    THEN LET offset == (off + i) % l
             endpoint == eps[offset + 1]
         IN  IF isInPool(endpoint)
             THEN [ep |-> offset + 1,
                   endpoints |-> [eps EXCEPT ![offset + 1] = onEndpointSelected(endpoint)],
                   offset |-> (off % l) + 1,
                   inspected |-> i + 1]
             ELSE ScanAdvanceByOne(eps, off, i + 1, l)
    ELSE [ep |-> 0, endpoints |-> eps, offset |-> off, inspected |-> i]

\* The loop with the cursor used as it is, not modulo the length: beyond the
\* array it reads no endpoint, which it returns.
RECURSIVE ScanNoModulo(_, _, _, _)
ScanNoModulo(eps, off, i, l) ==
    IF i < l THEN
        LET offset == off + i
        IN  IF offset >= l
            THEN [ep |-> offset + 1, endpoints |-> eps,
                  offset |-> offset + 1, inspected |-> i + 1]
            ELSE IF isInPool(eps[offset + 1])
            THEN [ep |-> offset + 1,
                  endpoints |-> [eps EXCEPT ![offset + 1] = onEndpointSelected(eps[offset + 1])],
                  offset |-> offset + 1, inspected |-> i + 1]
            ELSE ScanNoModulo(eps, off, i + 1, l)
    ELSE [ep |-> 0, endpoints |-> eps, offset |-> off, inspected |-> i]

\* The loop that starts at the head of the array whatever the cursor.
RECURSIVE ScanFromStart(_, _, _, _)
ScanFromStart(eps, off, i, l) ==
    IF i < l THEN
        LET offset == i % l
            endpoint == eps[offset + 1]
        IN  IF isInPool(endpoint)
            THEN [ep |-> offset + 1,
                  endpoints |-> [eps EXCEPT ![offset + 1] = onEndpointSelected(endpoint)],
                  offset |-> offset + 1, inspected |-> i + 1]
            ELSE ScanFromStart(eps, off, i + 1, l)
    ELSE [ep |-> 0, endpoints |-> eps, offset |-> off, inspected |-> i]

RECURSIVE Scan(_, _, _, _)
Scan(eps, off, i, l) ==
    IF i < l THEN
        LET offset == (off + i) % l
            endpoint == eps[offset + 1]
        IN  IF isInPool(endpoint)
            THEN [ep |-> offset + 1,
                  endpoints |-> [eps EXCEPT ![offset + 1] = onEndpointSelected(endpoint)],
                  offset |-> offset + 1, inspected |-> i + 1]
            ELSE Scan(eps, off, i + 1, l)
    ELSE [ep |-> 0, endpoints |-> eps, offset |-> off, inspected |-> i]

getNextEndpoint(eps, off) == Scan(eps, off, 0, Len(eps))

\* _.findWhere(newEndpoints, {url: url}): the first match, 0 when none.
FindWhere(newEndpoints, url) ==
    LET hits == { j \in 1..Len(newEndpoints) : newEndpoints[j].url = url }
    IN  IF hits = {} THEN 0 ELSE CHOOSE j \in hits : \A k \in hits : j <= k

\* The removal loop of updateEndpoints, from place i down.  kept lists the
\* places (in the array as it was) of the objects still in the array;
\* _.without drops the one new object that matched.
\* Reconcile, but an endpoint that finds no match is not spliced out.
RECURSIVE ReconcileNoSplice(_, _, _, _)
ReconcileNoSplice(eps, kept, newEndpoints, i) ==
    IF i = 0 THEN [kept |-> kept, newEndpoints |-> newEndpoints]
    ELSE LET matchingEndpoint == FindWhere(newEndpoints, eps[kept[i]].url)
         IN  IF matchingEndpoint # 0
             THEN ReconcileNoSplice(eps, kept, RemoveAt(newEndpoints, matchingEndpoint), i - 1)
             ELSE ReconcileNoSplice(eps, kept, newEndpoints, i - 1)

RECURSIVE Reconcile(_, _, _, _)
Reconcile(eps, kept, newEndpoints, i) ==
    IF i = 0 THEN [kept |-> kept, newEndpoints |-> newEndpoints]
    ELSE LET matchingEndpoint == FindWhere(newEndpoints, eps[kept[i]].url)
         IN  IF matchingEndpoint # 0
             THEN Reconcile(eps, kept, RemoveAt(newEndpoints, matchingEndpoint), i - 1)
             ELSE Reconcile(eps, RemoveAt(kept, i), newEndpoints, i - 1)

\* updateEndpoints(descs) on the array eps: the array afterwards, and kept,
\* the former places of the objects that stayed (the new objects, registered,
\* are pushed behind them in the order left in newEndpoints).
updateEndpoints(eps, descs) ==
    LET made == [j \in 1..Len(descs) |-> Endpoint(descs[j])]
        r == Reconcile(eps, [i \in 1..Len(eps) |-> i], made, Len(eps))
    IN  [endpoints |-> [k \in 1..Len(r.kept) |-> eps[r.kept[k]]]
                       \o [j \in 1..Len(r.newEndpoints) |->
                              onEndpointRegistered(r.newEndpoints[j])],
         kept |-> r.kept]

\* getStatus that finds the usable endpoints by selecting them.
getStatusBySelecting(eps, off) ==
    [total |-> Len(eps),
     unhealthy |-> Cardinality({ i \in 1..Len(eps) : ~isInPool(eps[i]) }),
     endpoints |-> [i \in 1..Len(eps) |->
                       IF isInPool(eps[i]) THEN onEndpointSelected(eps[i]) ELSE eps[i]],
     offset |-> off]

\* The status, and the manager's array and offset as the call leaves them.
getStatus(eps, off) ==
    [total |-> Len(eps),
     unhealthy |-> Cardinality({ i \in 1..Len(eps) : ~isInPool(eps[i]) }),
     endpoints |-> eps,
     offset |-> off]

\* ------------------------------------------------------------ EndpointPool

\* getEndpoint: the endpoint, or null with a 'noEndpoints' event.
getEndpoint(eps, off) ==
    LET r == getNextEndpoint(eps, off)
    IN  [ep |-> r.ep, endpoints |-> r.endpoints, offset |-> r.offset,
         inspected |-> r.inspected,
         event |-> IF r.ep # 0 THEN "none" ELSE "noEndpoints"]

\* DNS_LOOKUP_TIMEOUT, in time units (one unit is a second).
DNS_LOOKUP_TIMEOUT == 1

\* An argument or option is <<>> when it is not given and <<v>> when it is.
\* !v holds of one not given and of 0.
Truthy(v) == v # <<>> /\ v[1] # 0

OptionValues == { <<>>, <<0>>, <<1>> }

Options ==
    [maxFailures : OptionValues, failureWindow : OptionValues,
     resetTimeout : OptionValues, failureRate : OptionValues,
     failureRateWindow : OptionValues]

\* new EndpointPool(discoveryName, ttl, ejectOnErrorConfig, onReady); onReady
\* is a function or is not.
Arguments ==
    [discoveryName : { <<>>, <<"svc">> },
     ttl : OptionValues,
     ejectOnErrorConfig : { <<>> } \cup { <<o>> : o \in Options },
     onReady : BOOLEAN]

defaultPoolManager == [thrown |-> "", poolManager |-> <<DefaultConfig>>]

\* ejectOnErrorPoolManager that falls back on the default manager where it
\* should throw.
ejectOnErrorPoolManagerLenient(options) ==
    IF options = <<>> THEN defaultPoolManager
    ELSE LET o == options[1]
         IN  IF Truthy(o.failureWindow) /\ Truthy(o.maxFailures) /\ Truthy(o.resetTimeout)
             THEN [thrown |-> "",
                   poolManager |-> <<RollingConfig(o.maxFailures[1], o.failureWindow[1],
                                                   o.resetTimeout[1])>>]
             ELSE IF Truthy(o.failureRate) /\ Truthy(o.failureRateWindow)
                                           /\ Truthy(o.resetTimeout)
             THEN [thrown |-> "",
                   poolManager |-> <<RateConfig(o.failureRate[1], 1, o.failureRateWindow[1],
                                                o.resetTimeout[1])>>]
             ELSE defaultPoolManager

\* The manager built, or the message of the Error thrown.
ejectOnErrorPoolManager(options) ==
    IF options = <<>>
    THEN [thrown |-> "Must supply arguments to ejectOnErrorPoolManager",
          poolManager |-> <<>>]
    ELSE LET o == options[1]
         IN  IF Truthy(o.failureWindow) /\ Truthy(o.maxFailures) /\ Truthy(o.resetTimeout)
             THEN [thrown |-> "",
                   poolManager |-> <<RollingConfig(o.maxFailures[1], o.failureWindow[1],
                                                   o.resetTimeout[1])>>]
             ELSE IF Truthy(o.failureRate) /\ Truthy(o.failureRateWindow)
                                           /\ Truthy(o.resetTimeout)
             THEN [thrown |-> "",
                   poolManager |-> <<RateConfig(o.failureRate[1], 1, o.failureRateWindow[1],
                                                o.resetTimeout[1])>>]
             ELSE [thrown |-> "Must supply either configuration to ejectOnErrorPoolManager",
                   poolManager |-> <<>>]

\* The EndpointPool and its refresh cycle:
\*   phase          "new" before the constructor runs, then "threw" or "live";
\*   args           the constructor's arguments, until it has run;
\*   thrown         the message of the Error the constructor threw;
\*   ttl, onReady   this.ttl, and whether onReady is a function;
\*   resolving      the resolves in flight: the onDone of the update that
\*                  began each, and the time left of its lookup timeout;
\*   late           of the resolves whose callback has run, the source (DNS
\*                  answer, lookup timeout) that has not come in yet;
\*   updateTimers   the time left of each live timeout that will run update;
\*   updateTimeout  the one of them this._updateTimeout names (0: none live);
\*   onReadyCalls   the times onReady was called (2: two or more);
\*   updates        the updates that have completed (2: two or more);
\*   emitted        what the last update to complete emitted;
\*   stopped        stopUpdating has been called.
NewPool(args) ==
    [phase |-> "new", args |-> <<args>>, thrown |-> "", ttl |-> 0, onReady |-> FALSE,
     resolving |-> <<>>, late |-> {}, updateTimers |-> <<>>, updateTimeout |-> 0,
     onReadyCalls |-> 0, updates |-> 0, emitted |-> "none", stopped |-> FALSE]

\* A pool whose update is stubbed out: it resolves nothing and sets no timer,
\* its endpoints are set by setEndpoints.
UpdateStubbed ==
    [phase |-> "live", args |-> <<>>, thrown |-> "", ttl |-> 0, onReady |-> FALSE,
     resolving |-> <<>>, late |-> {}, updateTimers |-> <<>>, updateTimeout |-> 0,
     onReadyCalls |-> 0, updates |-> 0, emitted |-> "none", stopped |-> FALSE]

\* update(onDone): resolve is called, which arms the lookup timeout and asks
\* the DNS; the callback runs when the first of the two comes in.
update(p, onDone) ==
    [p EXCEPT !.resolving = Append(@, [onDone |-> onDone, lookup |-> DNS_LOOKUP_TIMEOUT,
                                       called |-> FALSE])]

\* The update a refresh timeout runs, handed the first update's onDone.
updateBoundOnReady(p) == update(p, p.onReady)

\* this.update.bind(this), as a timeout calls it: without arguments.
updateBound(p) == update(p, FALSE)

\* The constructor: the pool and the manager's options, or what it threw.
EndpointPool(args) ==
    LET made == IF args.ejectOnErrorConfig # <<>>
                THEN ejectOnErrorPoolManager(args.ejectOnErrorConfig)
                ELSE defaultPoolManager
        p == NewPool(args)
    IN  IF args.discoveryName = <<>> \/ ~Truthy(args.ttl)
        THEN [pool |-> [p EXCEPT !.phase = "threw", !.args = <<>>,
                                 !.thrown = "Must supply all arguments"],
              poolManager |-> <<>>]
        ELSE IF made.thrown # ""
        THEN [pool |-> [p EXCEPT !.phase = "threw", !.args = <<>>, !.thrown = made.thrown],
              poolManager |-> <<>>]
        ELSE [pool |-> update([p EXCEPT !.phase = "live", !.args = <<>>,
                                        !.ttl = args.ttl[1], !.onReady = args.onReady],
                              args.onReady),
              poolManager |-> made.poolManager]

\* What a resolve hands its callback: an error, no result, or the records.
Answers(limit) ==
    { [err |-> TRUE, result |-> <<>>], [err |-> FALSE, result |-> <<>>] }
        \cup { [err |-> FALSE, result |-> <<descs>>] :
                   descs \in { d \in UNION { [1..n -> Descriptors] : n \in 0..MaxDescs } :
                                 Len(d) <= limit } }

Unchanged(eps) == [endpoints |-> eps, kept |-> [i \in 1..Len(eps) |-> i]]

\* update's callback that takes an empty list of records for a result.
onResolvedEmptyApplied(p, eps, off, onDone, err, result) ==
    LET failed == err \/ result = <<>>
        set == IF failed THEN Unchanged(eps) ELSE updateEndpoints(eps, result[1])
    IN  [pool |-> [p EXCEPT !.emitted = IF failed THEN "updateError" ELSE "none",
                            !.updateTimers = Append(@, p.ttl),
                            !.updateTimeout = Len(p.updateTimers) + 1,
                            !.onReadyCalls = IF onDone THEN Min(@ + 1, 2) ELSE @,
                            !.updates = Min(@ + 1, 2)],
         endpoints |-> set.endpoints, kept |-> set.kept, offset |-> off,
         event |-> IF failed THEN "updateError" ELSE "none"]

\* The callback update hands to resolve.
onResolved(p, eps, off, onDone, err, result) ==
    LET failed == err \/ result = <<>> \/ Len(result[1]) = 0
        set == IF failed THEN Unchanged(eps) ELSE updateEndpoints(eps, result[1])
    IN  [pool |-> [p EXCEPT !.emitted = IF failed THEN "updateError" ELSE "none",
                            !.updateTimers = Append(@, p.ttl),
                            !.updateTimeout = Len(p.updateTimers) + 1,
                            !.onReadyCalls = IF onDone THEN Min(@ + 1, 2) ELSE @,
                            !.updates = Min(@ + 1, 2)],
         endpoints |-> set.endpoints, kept |-> set.kept, offset |-> off,
         event |-> IF failed THEN "updateError" ELSE "none"]

\* A wrapper that calls through every time.
onceEveryTime(called, p, eps, off, onDone, err, result) ==
    onResolved(p, eps, off, onDone, err, result)

\* _.once(cb): the first call runs cb, every later one does nothing.
once(called, p, eps, off, onDone, err, result) ==
    IF called
    THEN [pool |-> p, endpoints |-> eps, kept |-> Unchanged(eps).kept, offset |-> off,
          event |-> "none"]
    ELSE onResolved(p, eps, off, onDone, err, result)

\* stopUpdating: clearTimeout(this._updateTimeout).
stopUpdating(p) ==
    [p EXCEPT !.updateTimers = IF p.updateTimeout = 0 THEN @
                               ELSE RemoveAt(@, p.updateTimeout),
              !.updateTimeout = 0,
              !.stopped = TRUE]

\* ------------------------------------------------------------------- time

\* One time unit passes: every live timeout has one unit less to wait, every
\* recorded failure time is one unit older.
Older(slot, limit) == IF slot = <<>> THEN slot ELSE <<Min(slot[1] + 1, limit)>>

ElapseEndpoint(endpoint) ==
    [endpoint EXCEPT
        !.timers = [k \in 1..Len(@) |-> Max(@[k] - 1, 0)],
        !.buffer.buffer = IF config.kind = "rolling"
                          THEN [i \in 1..Len(@) |-> Older(@[i], config.failureWindow + 1)]
                          ELSE @]

ElapsePool(p) ==
    [p EXCEPT
        !.updateTimers = [k \in 1..Len(@) |-> Max(@[k] - 1, 0)],
        !.resolving = [k \in 1..Len(@) |-> [@[k] EXCEPT !.lookup = Max(@ - 1, 0)]]]

\* -------------------------------------------------------- detached objects

\* Of an object spliced out of the array, only what its timeouts' callbacks
\* touch is kept: its state and its timeouts.
Detach(endpoint) ==
    [endpoint EXCEPT !.name = "", !.port = 0, !.url = <<>>,
                     !.buffer = RingBuffer(0), !.errors = 0]

\* The places of the objects updateEndpoints spliced out that a live timeout
\* still holds.
Spliced(eps, kept) ==
    { i \in 1..Len(eps) : (\A k \in 1..Len(kept) : kept[k] # i) /\ eps[i].timers # <<>> }

\* The detached objects after d's timeout k has run: d is garbage once it
\* has no live timeout left.
Fired(held, d, k) ==
    LET after == ReopenCallback(d, k)
    IN  IF after.timers = <<>> THEN held \ {d} ELSE (held \ {d}) \cup {after}

\* ---------------------------------------------------------------- history

\* What the run so far did to one endpoint of the array:
\*   selected  getEndpoint has returned it (a caller holds its callback);
\*   recorded  the ages of the failures reported for it while it was not OPEN,
\*             the most recent first, the last maxFailures - 1 of them;
\*   openAge   the time since it last became OPEN, up to resetTimeout;
\*   probing   a reopen timeout has fired and no outcome was reported since;
\*   probes    the times getEndpoint returned it while probing (2: two or more);
\*   outcomes  under the rate policy, the outcomes reported for it (1 a
\*             failure, 0 a success), the most recent first, the last
\*             failureRateWindow of them.
NewTrace ==
    [selected |-> FALSE, recorded |-> <<>>, openAge |-> 0, probing |-> FALSE,
     probes |-> 0, outcomes |-> <<>>]

TraceSelected(t) ==
    [t EXCEPT !.selected = TRUE, !.probes = IF t.probing THEN Min(@ + 1, 2) ELSE @]

TraceReturned(t, before, after, err) ==
    [t EXCEPT
        !.probing = FALSE,
        !.probes = 0,
        !.recorded = IF config.kind = "rolling" /\ err /\ before.state # OPEN
                     THEN SubSeq(<<0>> \o @, 1, Min(Len(@) + 1, config.maxFailures - 1))
                     ELSE @,
        !.outcomes = IF config.kind = "rate"
                     THEN SubSeq(<<IF err THEN 1 ELSE 0>> \o @, 1,
                                 Min(Len(@) + 1, config.failureRateWindow))
                     ELSE @,
        !.openAge = IF before.state # OPEN /\ after.state = OPEN THEN 0 ELSE @]

TraceReopened(t) == [t EXCEPT !.probing = TRUE, !.probes = 0, !.openAge = 0]

TraceElapsed(t, endpoint) ==
    [t EXCEPT
        !.recorded = [i \in 1..Len(@) |-> Min(@[i] + 1, config.failureWindow + 1)],
        !.openAge = IF endpoint.state = OPEN THEN Min(@ + 1, config.resetTimeout) ELSE @]

\* ----------------------------------------------------------------- actions

Places == 1..Len(endpoints)

DescriptorLists == UNION { [1..n -> Descriptors] : n \in 0..MaxDescs }

\* new EndpointPool(...), before the first update has resolved.
\* new RingBuffer(size) on its own: nothing written, nothing read.
NewRing(size) == [buffer |-> RingBuffer(size), written |-> <<>>, reads |-> <<>>]

Capacities == 1..3

\* What is written: the rate policy's flags.
RingValues == {0, 1}

\* No selection is in flight.
NoCalls == [whileClosed |-> 0, asProbe |-> 0]

Constructed ==
    /\ endpoints = <<>>
    /\ endpointOffset = 0
    /\ detached = {}
    /\ trace = <<>>

Init ==
    /\ config \in PoolConfigs
    /\ srvLimit = MaxDescs
    /\ pool = UpdateStubbed
    /\ ring = NewRing(1)
    /\ calls = NoCalls
    /\ waited = <<>>
    /\ Constructed

\* A discovery name that resolves to one record at most.
InitBreaker ==
    /\ config \in BreakerConfigs
    /\ srvLimit = 1
    /\ pool = UpdateStubbed
    /\ ring = NewRing(1)
    /\ calls = NoCalls
    /\ waited = <<>>
    /\ Constructed

\* Before new EndpointPool(...) runs, whatever its arguments; the discovery
\* name resolves to one record at most.
InitUpdate ==
    /\ config = DefaultConfig
    /\ srvLimit = 1
    /\ pool \in { NewPool(args) : args \in Arguments }
    /\ ring = NewRing(1)
    /\ calls = NoCalls
    /\ waited = <<>>
    /\ Constructed

\* A pool manager that is never used, and a RingBuffer of some capacity.
InitRing ==
    /\ config = DefaultConfig
    /\ srvLimit = 1
    /\ pool = UpdateStubbed
    /\ ring \in { NewRing(size) : size \in Capacities }
    /\ calls = NoCalls
    /\ waited = <<>>
    /\ Constructed

\* oldest = buffer.read(); buffer.write(val), as the policies use the class.
RingStep ==
    \E val \in RingValues :
        /\ Len(ring.written) < MaxWrites
        /\ ring' = [buffer |-> RingWrite(ring.buffer, val),
                    written |-> Append(ring.written, val),
                    reads |-> Append(ring.reads, RingRead(ring.buffer))]
        /\ UNCHANGED <<config, endpoints, endpointOffset, detached, srvLimit, trace, pool, calls, waited>>

\* A pool with a breaker policy after setEndpoints with one descriptor: its
\* one endpoint is registered and nothing has been selected.
InitFeedback ==
    /\ config \in BreakerConfigs
    /\ srvLimit = 1
    /\ pool = UpdateStubbed
    /\ ring = NewRing(1)
    /\ calls = NoCalls
    /\ waited = <<>>
    /\ endpoints = updateEndpoints(<<>>, <<[name |-> "a", port |-> 1]>>).endpoints
    /\ endpointOffset = 0
    /\ detached = {}
    /\ trace = <<NewTrace>>

\* pool.getEndpoint() by a caller that will report once: the selection is in
\* flight from here on.
Select ==
    LET r == getEndpoint(endpoints, endpointOffset)
    IN  /\ r.ep # 0
        /\ calls.whileClosed + calls.asProbe < MaxInflight
        /\ endpoints' = r.endpoints
        /\ endpointOffset' = r.offset
        /\ trace' = [trace EXCEPT ![r.ep] = TraceSelected(@)]
        /\ calls' = IF endpoints[r.ep].state = HALF_OPEN_READY
                    THEN [calls EXCEPT !.asProbe = @ + 1]
                    ELSE [calls EXCEPT !.whileClosed = @ + 1]
        /\ UNCHANGED <<config, detached, srvLimit, pool, ring, waited>>

\* endpoint.callback(err) of one of the selections in flight, whichever.
Report ==
    \E which \in {"whileClosed", "asProbe"}, err \in BOOLEAN :
        LET after == onEndpointReturned(endpoints[1], err)
        IN  /\ calls[which] > 0
            /\ endpoints' = [endpoints EXCEPT ![1] = after]
            /\ trace' = [trace EXCEPT ![1] = TraceReturned(@, endpoints[1], after, err)]
            /\ calls' = [calls EXCEPT ![which] = @ - 1]
            /\ UNCHANGED <<config, endpointOffset, detached, srvLimit, pool, ring, waited>>

\* The lists that name no identity twice and are not empty.
DistinctLists ==
    { descs \in DescriptorLists :
        /\ Len(descs) >= 1
        /\ \A j, k \in 1..Len(descs) : Url(descs[j]) = Url(descs[k]) => j = k }

\* A pool after its first setEndpoints, with a list of distinct identities;
\* nothing has been selected.
InitRotation ==
    /\ config \in PoolConfigs
    /\ srvLimit = MaxDescs
    /\ pool = UpdateStubbed
    /\ ring = NewRing(1)
    /\ calls = NoCalls
    /\ \E descs \in DistinctLists :
           /\ endpoints = updateEndpoints(<<>>, descs).endpoints
           /\ trace = [k \in 1..Len(descs) |-> NewTrace]
           /\ waited = [k \in 1..Len(descs) |-> 0]
    /\ endpointOffset = 0
    /\ detached = {}

\* pool.getEndpoint(), counted: an endpoint that was usable at the call and
\* was not the one returned has waited once more.
Rotate ==
    LET r == getEndpoint(endpoints, endpointOffset)
    IN  /\ endpoints' = r.endpoints
        /\ endpointOffset' = r.offset
        /\ trace' = IF r.ep = 0 THEN trace ELSE [trace EXCEPT ![r.ep] = TraceSelected(@)]
        /\ waited' = [i \in Places |->
                          IF i # r.ep /\ isInPool(endpoints[i])
                          THEN Min(waited[i] + 1, Len(endpoints))
                          ELSE 0]
        /\ UNCHANGED <<config, detached, srvLimit, pool, ring, calls>>

\* pool.getEndpoint()
GetEndpoint ==
    LET r == getEndpoint(endpoints, endpointOffset)
    IN  /\ pool.phase = "live"
        /\ endpoints' = r.endpoints
        /\ endpointOffset' = r.offset
        /\ trace' = IF r.ep = 0 THEN trace ELSE [trace EXCEPT ![r.ep] = TraceSelected(@)]
        /\ UNCHANGED <<config, detached, srvLimit, pool, ring, calls, waited>>

\* poolManager.getStatus()
GetStatus ==
    LET r == getStatus(endpoints, endpointOffset)
    IN  /\ pool.phase = "live"
        /\ endpoints' = r.endpoints
        /\ endpointOffset' = r.offset
        /\ UNCHANGED <<config, detached, srvLimit, trace, pool, ring, calls, waited>>

\* pool.setEndpoints(descs), which is poolManager.updateEndpoints(descs)
SetEndpoints ==
    \E descs \in DescriptorLists :
        LET r == updateEndpoints(endpoints, descs)
            held == { Detach(endpoints[i]) : i \in Spliced(endpoints, r.kept) }
        IN  /\ Len(descs) <= srvLimit
            /\ endpoints' = r.endpoints
            /\ detached' = detached \cup held
            /\ trace' = [k \in 1..Len(r.endpoints) |->
                            IF k <= Len(r.kept) THEN trace[r.kept[k]] ELSE NewTrace]
            /\ UNCHANGED <<config, endpointOffset, srvLimit, pool, ring, calls, waited>>

\* endpoint.callback(err), by a caller that getEndpoint handed the endpoint.
\* A report on an endpoint already spliced out touches that object only, and
\* is left out.
Callback ==
    \E i \in Places, err \in BOOLEAN :
        LET after == onEndpointReturned(endpoints[i], err)
        IN  /\ trace[i].selected
            /\ endpoints' = [endpoints EXCEPT ![i] = after]
            /\ trace' = [trace EXCEPT ![i] = TraceReturned(@, endpoints[i], after, err)]
            /\ UNCHANGED <<config, endpointOffset, detached, srvLimit, pool, ring, calls, waited>>

\* A reopen timeout of an endpoint of the array is due and runs its callback.
ReopenTimeout(i) ==
    \E k \in 1..Len(endpoints[i].timers) :
        /\ endpoints[i].timers[k] = 0
        /\ endpoints' = [endpoints EXCEPT ![i] = ReopenCallback(@, k)]
        /\ trace' = [trace EXCEPT ![i] = TraceReopened(@)]
        /\ UNCHANGED <<config, endpointOffset, detached, srvLimit, pool, ring, calls, waited>>

ReopenTimeouts == \E i \in Places : ReopenTimeout(i)

\* A reopen timeout of a detached endpoint is due and runs its callback.
DetachedTimeout ==
    \E d \in detached :
        \E k \in 1..Len(d.timers) :
            /\ d.timers[k] = 0
            /\ detached' = Fired(detached, d, k)
            /\ UNCHANGED <<config, endpoints, endpointOffset, srvLimit, trace, pool, ring, calls, waited>>

Tick ==
    /\ endpoints' = [i \in Places |-> ElapseEndpoint(endpoints[i])]
    /\ detached' = { ElapseEndpoint(d) : d \in detached }
    /\ trace' = [i \in Places |-> TraceElapsed(trace[i], endpoints[i])]
    /\ pool' = ElapsePool(pool)
    /\ UNCHANGED <<config, endpointOffset, srvLimit, ring, calls, waited>>

\* new EndpointPool(discoveryName, ttl, ejectOnErrorConfig, onReady)
Construct ==
    /\ pool.phase = "new"
    /\ LET r == EndpointPool(pool.args[1])
       IN  /\ pool' = r.pool
           /\ config' = IF r.poolManager = <<>> THEN config ELSE r.poolManager[1]
    /\ UNCHANGED <<endpoints, endpointOffset, detached, srvLimit, trace, ring, calls, waited>>

\* What a run of update's callback leaves of the manager.
Reconciled(r) ==
    /\ endpoints' = r.endpoints
    /\ endpointOffset' = r.offset
    /\ detached' = detached \cup { Detach(endpoints[i]) : i \in Spliced(endpoints, r.kept) }
    /\ trace' = [k \in 1..Len(r.endpoints) |->
                    IF k <= Len(r.kept) THEN trace[r.kept[k]] ELSE NewTrace]

\* dns.resolveSrv calls back before the lookup timeout does.
Resolved ==
    \E k \in 1..Len(pool.resolving), a \in Answers(srvLimit) :
        LET e == pool.resolving[k]
            rest == [pool EXCEPT !.resolving = RemoveAt(@, k),
                                 !.late = @ \cup {[source |-> "timeout", onDone |-> e.onDone]}]
            r == once(e.called, rest, endpoints, endpointOffset, e.onDone, a.err, a.result)
        IN  /\ pool' = r.pool
            /\ Reconciled(r)
            /\ UNCHANGED <<config, srvLimit, ring, calls, waited>>

\* The lookup timeout calls back, with dns.TIMEOUT, before the DNS does.
LookupTimeout ==
    \E k \in 1..Len(pool.resolving) :
        LET e == pool.resolving[k]
            rest == [pool EXCEPT !.resolving = RemoveAt(@, k),
                                 !.late = @ \cup {[source |-> "dns", onDone |-> e.onDone]}]
            r == once(e.called, rest, endpoints, endpointOffset, e.onDone, TRUE, <<>>)
        IN  /\ e.lookup = 0
            /\ pool' = r.pool
            /\ Reconciled(r)
            /\ UNCHANGED <<config, srvLimit, ring, calls, waited>>

\* The other source of a resolve whose callback has run comes in.
Late ==
    \E l \in pool.late :
        \E a \in IF l.source = "dns" THEN Answers(srvLimit)
                  ELSE {[err |-> TRUE, result |-> <<>>]} :
            LET rest == [pool EXCEPT !.late = @ \ {l}]
                r == once(TRUE, rest, endpoints, endpointOffset, l.onDone, a.err, a.result)
            IN  /\ pool' = r.pool
                /\ Reconciled(r)
                /\ UNCHANGED <<config, srvLimit, ring, calls, waited>>

\* A timeout set by update's callback is due and runs update.
UpdateTimeout ==
    \E k \in 1..Len(pool.updateTimers) :
        /\ pool.updateTimers[k] = 0
        /\ pool' = updateBound([pool EXCEPT
                        !.updateTimers = RemoveAt(@, k),
                        !.updateTimeout = IF @ = k THEN 0 ELSE IF @ > k THEN @ - 1 ELSE @])
        /\ UNCHANGED <<config, endpoints, endpointOffset, detached, srvLimit, trace, ring, calls, waited>>

\* pool.stopUpdating()
StopUpdating ==
    /\ pool.phase = "live"
    /\ pool' = stopUpdating(pool)
    /\ UNCHANGED <<config, endpoints, endpointOffset, detached, srvLimit, trace, ring, calls, waited>>

Next ==
    \/ GetEndpoint
    \/ GetStatus
    \/ SetEndpoints
    \/ Callback
    \/ ReopenTimeouts
    \/ DetachedTimeout
    \/ Tick

Spec == Init /\ [][Next]_vars

SpecBreaker == InitBreaker /\ [][Next]_vars

\* The pool as the DNS feeds it: nobody calls setEndpoints.
NextUpdate ==
    \/ Construct
    \/ Resolved
    \/ LookupTimeout
    \/ Late
    \/ UpdateTimeout
    \/ StopUpdating
    \/ GetEndpoint
    \/ GetStatus
    \/ Callback
    \/ ReopenTimeouts
    \/ DetachedTimeout
    \/ Tick

SpecUpdate == InitUpdate /\ [][NextUpdate]_vars

\* Time passes, and the event loop runs the callback of a timeout that is due.
NextRing == RingStep

SpecRing == InitRing /\ [][NextRing]_vars

NextFeedback == Select \/ Report \/ ReopenTimeouts \/ Tick

SpecFeedback == InitFeedback /\ [][NextFeedback]_vars

NextRotation == Rotate \/ Callback \/ ReopenTimeouts \/ Tick

SpecRotation == InitRotation /\ [][NextRotation]_vars

Fairness ==
    /\ WF_vars(Tick)
    /\ \A i \in 1..MaxDescs : WF_vars(i \in Places /\ ReopenTimeout(i))
    /\ WF_vars(DetachedTimeout)

LiveBreaker == SpecBreaker /\ Fairness

FairnessUpdate ==
    /\ WF_vars(Tick)
    /\ WF_vars(UpdateTimeout)
    /\ WF_vars(LookupTimeout)

LiveUpdate == SpecUpdate /\ FairnessUpdate

\* ------------------------------------------------------------ properties

\* "Usable", as the design states it: without a breaker every endpoint is,
\* with one the endpoints that are CLOSED or HALF_OPEN_READY.
Usable(endpoint) ==
    config.kind = "default" \/ endpoint.state \in {CLOSED, HALF_OPEN_READY}

AllUsable == \A i \in Places : Usable(endpoints[i])

\* The places returned by n consecutive getEndpoint calls, nothing else
\* happening in between.
RECURSIVE Calls(_, _, _)
Calls(eps, off, n) ==
    IF n = 0 THEN <<>>
    ELSE LET r == getEndpoint(eps, off)
         IN  <<r.ep>> \o Calls(r.endpoints, r.offset, n - 1)

\* C1.  Round robin: when all N endpoints are usable, N consecutive
\* getEndpoint calls return the endpoints at places cursor mod N,
\* cursor mod N + 1, ... (wrapping), so each endpoint exactly once.
C1_RoundRobin ==
    AllUsable =>
        LET N == Len(endpoints)
            got == Calls(endpoints, endpointOffset, N)
        IN  /\ \A k \in 1..N : got[k] = ((endpointOffset + k - 1) % N) + 1
            /\ \A i \in Places : Cardinality({ k \in 1..N : got[k] = i }) = 1

\* C1 witness: two usable endpoints, one of them waiting for its probe, and
\* the cursor, left by earlier calls, not at the start of the array.
C1_Witness ==
    /\ Len(endpoints) = 2
    /\ AllUsable
    /\ endpointOffset = 1
    /\ trace[1].selected
    /\ \E i \in Places : endpoints[i].state = HALF_OPEN_READY

\* C2.  Under a breaker policy the endpoint getEndpoint returns is, at the
\* moment of the call, CLOSED or HALF_OPEN_READY, never OPEN or
\* HALF_OPEN_PENDING.
C2_ReturnsOnlyUsable ==
    LET r == getEndpoint(endpoints, endpointOffset)
    IN  (config.kind # "default" /\ r.ep # 0) =>
            /\ endpoints[r.ep].state \in {CLOSED, HALF_OPEN_READY}
            /\ endpoints[r.ep].state \notin {OPEN, HALF_OPEN_PENDING}

\* C2 witness: the endpoint at the cursor is OPEN, the one behind it has its
\* probe in flight, and an earlier call returned both.
C2_Witness ==
    /\ Len(endpoints) = 2
    /\ endpointOffset % 2 = 0
    /\ endpoints[1].state = OPEN
    /\ endpoints[2].state = HALF_OPEN_PENDING
    /\ trace[1].selected /\ trace[2].selected

\* C3.  getEndpoint returns none exactly when no endpoint is usable (the
\* empty array included), after at most len(endpoints) candidates; it then
\* returns null and emits 'noEndpoints', and emits it in no other case.
C3_NoneIffNoneUsable ==
    LET r == getEndpoint(endpoints, endpointOffset)
    IN  /\ r.ep = 0 <=> (\A i \in Places : ~Usable(endpoints[i]))
        /\ r.inspected <= Len(endpoints)
        /\ r.event = "noEndpoints" <=> r.ep = 0
        /\ r.ep = 0 => /\ r.endpoints = endpoints
                       /\ r.offset = endpointOffset
                       /\ r.inspected = Len(endpoints)

\* C3 witness: two endpoints, none usable, the cursor past the first; the
\* call inspects both and returns none.
C3_Witness ==
    /\ Len(endpoints) = 2
    /\ \A i \in Places : ~Usable(endpoints[i])
    /\ endpointOffset = 1
    /\ getEndpoint(endpoints, endpointOffset).inspected = 2
    /\ getEndpoint(endpoints, endpointOffset).event = "noEndpoints"

\* The identity of a descriptor, name:port, and the identities of a list.
NamePort(info) == <<info.name, info.port>>

Identities(descs) == { NamePort(descs[j]) : j \in 1..Len(descs) }

Identity(endpoint) == <<endpoint.name, endpoint.port>>

\* The lists updateEndpoints may be called with in this state.
Resolvable == { descs \in DescriptorLists : Len(descs) <= srvLimit }

PairwiseDistinct(descs) ==
    \A j, k \in 1..Len(descs) : NamePort(descs[j]) = NamePort(descs[k]) => j = k

\* C4.  Reconciliation preserves state: whatever list updateEndpoints is
\* called with, every endpoint of the array whose identity is in the list is
\* still in the array afterwards, the same object with the same state,
\* buffer, errors and timeouts.
C4_SurvivorsKeepState ==
    \A descs \in Resolvable :
        LET r == updateEndpoints(endpoints, descs)
        IN  \A i \in Places :
                Identity(endpoints[i]) \in Identities(descs) =>
                    \E k \in 1..Len(r.kept) :
                        r.kept[k] = i /\ r.endpoints[k] = endpoints[i]

\* C5.  After updateEndpoints with a list of pairwise distinct identities
\* the array holds one endpoint per identity of the list and no other: first
\* the endpoints that stayed, unchanged and in their former order, then, in
\* the order of the list, one new endpoint (registered: CLOSED under a
\* breaker policy) per identity no endpoint had before; no endpoint whose
\* identity is not in the list stays.
C5_ArrayAfterUpdate ==
    \A descs \in Resolvable :
        PairwiseDistinct(descs) =>
            LET r == updateEndpoints(endpoints, descs)
                n == Len(r.kept)
                had == { Identity(endpoints[i]) : i \in Places }
                IsNew(info) == NamePort(info) \notin had
                fresh == SelectSeq(descs, IsNew)
            IN  /\ Len(r.endpoints) = Len(descs)
                /\ { Identity(r.endpoints[k]) : k \in 1..Len(r.endpoints) }
                       = Identities(descs)
                /\ \A k \in 1..n :
                       /\ r.kept[k] \in Places
                       /\ r.endpoints[k] = endpoints[r.kept[k]]
                       /\ k < n => r.kept[k] < r.kept[k + 1]
                /\ Len(r.endpoints) = n + Len(fresh)
                /\ \A j \in 1..Len(fresh) :
                       LET made == r.endpoints[n + j]
                       IN  /\ Identity(made) = NamePort(fresh[j])
                           /\ made.url = NamePort(fresh[j])
                           /\ made.timers = <<>>
                           /\ made.state = IF config.kind = "default" THEN Undefined
                                           ELSE CLOSED
                /\ \A i \in Places :
                       Identity(endpoints[i]) \notin Identities(descs) =>
                           \A k \in 1..n : r.kept[k] # i

\* C5 witness: the array holds one endpoint, OPEN, and a list naming a new
\* identity first and that endpoint second keeps it in front of the new one.
C5_Witness ==
    /\ Len(endpoints) = 1
    /\ endpoints[1].state = OPEN
    /\ \E descs \in Resolvable :
           LET r == updateEndpoints(endpoints, descs)
           IN  /\ PairwiseDistinct(descs)
               /\ Len(descs) = 2
               /\ NamePort(descs[2]) = Identity(endpoints[1])
               /\ r.kept = <<1>>
               /\ r.endpoints[1].state = OPEN
               /\ Identity(r.endpoints[2]) = NamePort(descs[1])

\* C6.  An endpoint updateEndpoints has removed holds no live reopen
\* timeout: removal cancels it, so that it never runs on the removed
\* endpoint.
C6_RemovalCancelsTimer == \A d \in detached : d.timers = <<>>

\* C7.  Half-open admits a single probe: between the reopen timeout of an
\* endpoint firing and the next outcome reported for it, getEndpoint returns
\* the endpoint at most once; before that selection it is HALF_OPEN_READY,
\* after it HALF_OPEN_PENDING, and getEndpoint does not return it.
C7_SingleProbe ==
    \A i \in Places :
        trace[i].probing =>
            \/ trace[i].probes = 0 /\ endpoints[i].state = HALF_OPEN_READY
            \/ /\ trace[i].probes = 1
               /\ endpoints[i].state = HALF_OPEN_PENDING
               /\ getEndpoint(endpoints, endpointOffset).ep # i

\* C7 witness: the probe is out, and a further getEndpoint has found nothing.
C7_Witness ==
    \E i \in Places :
        /\ trace[i].probing
        /\ trace[i].probes = 1
        /\ endpoints[i].state = HALF_OPEN_PENDING
        /\ getEndpoint(endpoints, endpointOffset).event = "noEndpoints"

\* C8.  Under both policies an outcome reported while the endpoint is
\* HALF_OPEN_PENDING decides the probe whatever the failures on record: a
\* success makes it CLOSED, which getEndpoint selects, a failure makes it OPEN
\* with one live reopen timeout of resetTimeout.
C8_ProbeDecides ==
    \A i \in Places :
        endpoints[i].state = HALF_OPEN_PENDING =>
            LET ok == onEndpointReturned(endpoints[i], FALSE)
                failed == onEndpointReturned(endpoints[i], TRUE)
            IN  /\ ok.state = CLOSED
                /\ isInPool(ok)
                /\ ok.timers = <<>>
                /\ failed.state = OPEN
                /\ failed.timers = <<config.resetTimeout>>
                /\ failed.reopenTimeout = 1

\* C8 witness: a probe has just failed and the endpoint is OPEN with a new
\* timeout, though the window's rule did not ask for it: the failure
\* maxFailures - 1 back is older than failureWindow.
C8_Witness ==
    \E i \in Places :
        /\ config.kind = "rolling"
        /\ config.maxFailures = 3
        /\ endpoints[i].state = OPEN
        /\ endpoints[i].timers = <<config.resetTimeout>>
        /\ trace[i].openAge = 0
        /\ Len(trace[i].recorded) = 2
        /\ trace[i].recorded[1] = 0
        /\ trace[i].recorded[2] > config.failureWindow

\* The identities an endpoint can have.
Urls == { NamePort(info) : info \in Descriptors }

OpenAt(url) == \E i \in Places : endpoints[i].url = url /\ endpoints[i].state = OPEN

\* C9.  Reinstatement: an OPEN endpoint holds one reopen timeout, due
\* resetTimeout after the endpoint became OPEN whatever has been reported for
\* it since, and getEndpoint does not return it; it leaves OPEN only for
\* HALF_OPEN_READY, not before resetTimeout has passed, or by being removed;
\* and it does leave OPEN.
C9_Reinstated ==
    /\ [](\A i \in Places :
              endpoints[i].state = OPEN =>
                  /\ endpoints[i].timers = <<config.resetTimeout - trace[i].openAge>>
                  /\ endpoints[i].reopenTimeout = 1
                  /\ getEndpoint(endpoints, endpointOffset).ep # i)
    /\ [][\A i \in Places :
              endpoints[i].state = OPEN =>
                  \A j \in 1..Len(endpoints') :
                      endpoints'[j].url = endpoints[i].url =>
                          \/ endpoints'[j].state = OPEN
                          \/ /\ endpoints'[j].state = HALF_OPEN_READY
                             /\ trace[i].openAge = config.resetTimeout]_vars
    /\ \A url \in Urls : OpenAt(url) ~> ~OpenAt(url)

\* C9 witness: the timeout of an endpoint has made it HALF_OPEN_READY, under
\* the rate policy with a window of two in which both outcomes are
\* failures: the second one was reported while the endpoint was OPEN.
C9_Witness ==
    \E i \in Places :
        /\ config.kind = "rate"
        /\ config.failureRateWindow = 2
        /\ endpoints[i].state = HALF_OPEN_READY
        /\ trace[i].probing
        /\ endpoints[i].errors = 2
        /\ endpoints[i].timers = <<>>

\* C10.  The rolling window's trip rule: with maxFailures >= 2, a failure
\* reported for a CLOSED endpoint makes it OPEN exactly when at least
\* maxFailures - 1 earlier failures are on record for it (those reported
\* while it was OPEN are not) and the one maxFailures - 1 back is no older
\* than failureWindow.
C10_TripRule ==
    \A i \in Places :
        (config.kind = "rolling" /\ config.maxFailures >= 2
                                 /\ endpoints[i].state = CLOSED) =>
            LET K == config.maxFailures - 1
                recorded == trace[i].recorded
            IN  onEndpointReturned(endpoints[i], TRUE).state = OPEN
                    <=> (Len(recorded) >= K /\ recorded[K] <= config.failureWindow)

\* C10 witness: maxFailures is 3 and the third failure has just been reported
\* for a CLOSED endpoint that stays CLOSED, the first of the three being
\* older than failureWindow; a fourth now would not trip it either.
C10_Witness ==
    \E i \in Places :
        /\ config.kind = "rolling"
        /\ config.maxFailures = 3
        /\ endpoints[i].state = CLOSED
        /\ trace[i].recorded = <<0, config.failureWindow + 1>>
        /\ onEndpointReturned(endpoints[i], TRUE).state = CLOSED

\* The failures a ring buffer of outcomes holds.
FailureFlags(rb) == Cardinality({ k \in 1..Len(rb.buffer) : rb.buffer[k] = <<1>> })

\* C11.  The rate policy's trip rule: every reported outcome first brings
\* errors up to date (plus the new outcome, minus the one it evicts, so that
\* it counts the failures in the buffer); an endpoint that was not OPEN is
\* then OPEN, with a reopen timeout of resetTimeout, exactly when the
\* outcome is a failure and the endpoint was HALF_OPEN_PENDING or the new
\* count reaches failureRate * failureRateWindow; a success never makes an
\* endpoint OPEN.
C11_RateTripRule ==
    \A i \in Places :
        config.kind = "rate" =>
            \A err \in BOOLEAN :
                LET before == endpoints[i]
                    after == onEndpointReturned(before, err)
                    slot == before.buffer.buffer[before.buffer.offset + 1]
                    evicted == IF slot = <<1>> THEN 1 ELSE 0
                    count == before.errors + (IF err THEN 1 ELSE 0) - evicted
                    trips == err /\ (\/ before.state = HALF_OPEN_PENDING
                                     \/ count * config.rateDen
                                            >= config.rateNum * config.failureRateWindow)
                IN  /\ after.errors = count
                    /\ after.errors = FailureFlags(after.buffer)
                    /\ before.state # OPEN =>
                           /\ after.state = OPEN <=> trips
                           /\ trips => after.timers = <<config.resetTimeout>>
                           /\ ~trips => after.timers = before.timers
                    /\ before.state = OPEN =>
                           after.state = OPEN /\ after.timers = before.timers
                    /\ ~err => (after.state = OPEN => before.state = OPEN)

\* C11 witness: failureRate 1/2 over a window of 4; the second outcome ever
\* reported, a failure like the first, has just brought errors to 2 and made
\* the endpoint OPEN.
C11_Witness ==
    \E i \in Places :
        /\ config.kind = "rate"
        /\ config.failureRateWindow = 4
        /\ endpoints[i].state = OPEN
        /\ trace[i].openAge = 0
        /\ endpoints[i].errors = 2
        /\ endpoints[i].buffer.buffer = << <<1>>, <<1>>, <<>>, <<>> >>

\* A new endpoint as updateEndpoints registers it.
Registered(info) == onEndpointRegistered(Endpoint(info))

\* C12.  With failureRate 0.5 and failureRateWindow 4, the outcomes fail,
\* fail, success, success reported in this order for a newly registered
\* endpoint keep errors <= 2, and the endpoint is usable (isInPool) after
\* each of them.
C12_RateScenario ==
    \A i \in Places :
        (/\ config.kind = "rate"
         /\ 2 * config.rateNum = config.rateDen
         /\ config.failureRateWindow = 4
         /\ endpoints[i] = Registered(endpoints[i])) =>
            LET e1 == onEndpointReturned(endpoints[i], TRUE)
                e2 == onEndpointReturned(e1, TRUE)
                e3 == onEndpointReturned(e2, FALSE)
                e4 == onEndpointReturned(e3, FALSE)
            IN  \A e \in {e1, e2, e3, e4} : e.errors <= 2 /\ isInPool(e)

\* C16.  Without a breaker configuration every endpoint is always usable:
\* under the default manager getEndpoint returns none only when the array is
\* empty and otherwise the endpoint at the offset, feedback of either kind
\* changes nothing (no state, no timeout, so the rotation is as it was), and
\* getStatus counts no unhealthy endpoint.
C16_DefaultAlwaysUsable ==
    config.kind = "default" =>
        LET r == getEndpoint(endpoints, endpointOffset)
            N == Len(endpoints)
        IN  /\ r.ep = 0 <=> N = 0
            /\ N > 0 => r.ep = (endpointOffset % N) + 1
            /\ getStatus(endpoints, endpointOffset).unhealthy = 0
            /\ \A i \in Places :
                   /\ isInPool(endpoints[i])
                   /\ endpoints[i].state = Undefined
                   /\ endpoints[i].timers = <<>>
                   /\ \A err \in BOOLEAN :
                          onEndpointReturned(endpoints[i], err) = endpoints[i]

\* C16 witness: the default manager holds two endpoints, both handed out, so
\* that their callbacks may be called, and the rotation has come round.
C16_Witness ==
    /\ config.kind = "default"
    /\ Len(endpoints) = 2
    /\ endpointOffset = 2
    /\ \A i \in Places : trace[i].selected

\* C17.  getStatus returns the length of the array as total and the number
\* of endpoints that are OPEN or HALF_OPEN_PENDING as unhealthy, and leaves
\* every endpoint and the offset as they were: a HALF_OPEN_READY endpoint is
\* HALF_OPEN_READY afterwards.
C17_Status ==
    LET r == getStatus(endpoints, endpointOffset)
    IN  /\ r.total = Len(endpoints)
        /\ r.unhealthy = Cardinality({ i \in Places :
                             endpoints[i].state \in {OPEN, HALF_OPEN_PENDING} })
        /\ r.unhealthy = Cardinality({ i \in Places : ~Usable(endpoints[i]) })
        /\ r.endpoints = endpoints
        /\ r.offset = endpointOffset

\* C17 witness: one endpoint is OPEN and the other HALF_OPEN_READY: the
\* status counts one unhealthy endpoint of two.
C17_Witness ==
    /\ Len(endpoints) = 2
    /\ \E i, j \in Places :
           endpoints[i].state = OPEN /\ endpoints[j].state = HALF_OPEN_READY
    /\ getStatus(endpoints, endpointOffset).unhealthy = 1
    /\ getStatus(endpoints, endpointOffset).total = 2

\* C19.  The degenerate trip: under the rolling window with maxFailures = 1
\* (a buffer of size 0) one failure reported for an endpoint that is not OPEN
\* makes it OPEN at once, with a reopen timeout of resetTimeout, and the
\* buffer is neither read nor written.
C19_DegenerateTrip ==
    \A i \in Places :
        (config.kind = "rolling" /\ config.maxFailures = 1
                                 /\ endpoints[i].state # OPEN) =>
            LET after == onEndpointReturned(endpoints[i], TRUE)
            IN  /\ after.state = OPEN
                /\ after.timers = <<config.resetTimeout>>
                /\ endpoints[i].buffer = RingBuffer(0)
                /\ after.buffer = endpoints[i].buffer

\* C19 witness: with maxFailures = 1 a failure has just made an endpoint
\* OPEN.
C19_Witness ==
    \E i \in Places :
        /\ config.kind = "rolling"
        /\ config.maxFailures = 1
        /\ endpoints[i].state = OPEN
        /\ trace[i].openAge = 0
        /\ endpoints[i].timers = <<config.resetTimeout>>

\* The first usable place in circular order from place `from`, 0 if none.
FirstUsable(from) ==
    LET N == Len(endpoints)
        At(k) == ((from - 1 + k) % N) + 1
        hops == { k \in 0..(N - 1) : Usable(endpoints[At(k)]) }
    IN  IF N = 0 \/ hops = {} THEN 0
        ELSE At(CHOOSE k \in hops : \A m \in hops : k <= m)

\* C20.  The selection rule: getNextEndpoint returns the first usable
\* endpoint in circular order from index offset mod length, makes that one
\* endpoint HALF_OPEN_PENDING if it was HALF_OPEN_READY and leaves it as it
\* was otherwise, sets the offset to the selected index plus one, and leaves
\* every other endpoint unchanged.
C20_SelectionRule ==
    LET r == getNextEndpoint(endpoints, endpointOffset)
        N == Len(endpoints)
        first == IF N = 0 THEN 0 ELSE FirstUsable((endpointOffset % N) + 1)
    IN  /\ r.ep = first
        /\ Len(r.endpoints) = N
        /\ r.ep # 0 =>
               /\ r.offset = r.ep
               /\ r.endpoints[r.ep] =
                      IF endpoints[r.ep].state = HALF_OPEN_READY
                      THEN [endpoints[r.ep] EXCEPT !.state = HALF_OPEN_PENDING]
                      ELSE endpoints[r.ep]
        /\ \A i \in Places : i # r.ep => r.endpoints[i] = endpoints[i]

\* C20 witness: the endpoint at the offset is OPEN and the one after it is
\* HALF_OPEN_READY; it is selected, becomes HALF_OPEN_PENDING, and the
\* offset is its index plus one.
C20_Witness ==
    /\ Len(endpoints) = 2
    /\ endpointOffset = 2
    /\ endpoints[1].state = OPEN
    /\ endpoints[2].state = HALF_OPEN_READY
    /\ getNextEndpoint(endpoints, endpointOffset).ep = 2
    /\ getNextEndpoint(endpoints, endpointOffset).endpoints[2].state = HALF_OPEN_PENDING

\* C13.  A refresh that fails keeps the last known good set: when the
\* callback of a resolve in flight is handed an error, no result or an empty
\* list, updateEndpoints is not applied: the array with every endpoint's
\* state and the offset are as they were, getEndpoint goes on as it would
\* have, and 'updateError' is emitted.
C13_FailedRefreshKeepsSet ==
    \A k \in 1..Len(pool.resolving) :
        \A a \in { [err |-> TRUE, result |-> <<>>],
                   [err |-> TRUE, result |-> << <<>> >>],
                   [err |-> FALSE, result |-> <<>>],
                   [err |-> FALSE, result |-> << <<>> >>] } :
            LET e == pool.resolving[k]
                r == once(e.called, pool, endpoints, endpointOffset, e.onDone,
                          a.err, a.result)
            IN  /\ r.endpoints = endpoints
                /\ r.kept = [i \in Places |-> i]
                /\ r.offset = endpointOffset
                /\ getEndpoint(r.endpoints, r.offset)
                       = getEndpoint(endpoints, endpointOffset)
                /\ r.event = "updateError"
                /\ r.pool.emitted = "updateError"

\* C13 witness: the last update to complete emitted 'updateError' and the
\* endpoint an earlier update brought is still there, OPEN and with the
\* offset past it.
C13_Witness ==
    /\ pool.emitted = "updateError"
    /\ pool.updates = 2
    /\ Len(endpoints) = 1
    /\ endpoints[1].state = OPEN
    /\ endpointOffset = 1

\* The refresh cycle runs: the pool is built and stopUpdating was not called.
Refreshing == pool.phase = "live" /\ ~pool.stopped

\* C14.  Periodic refresh: the constructor starts one update; the callback
\* of every resolve, failed or not, sets exactly one timeout of ttl to run
\* the next update, and an update only starts when that timeout is due; so
\* there is never more than one such timeout, while stopUpdating has not
\* been called there is always either one resolve in flight or one timeout
\* pending, and each leads to the other.
C14_PeriodicRefresh ==
    /\ [](/\ Len(pool.updateTimers) <= 1
          /\ Refreshing => Len(pool.resolving) + Len(pool.updateTimers) = 1)
    /\ [][(pool.phase = "new" /\ pool'.phase = "live") =>
              (Len(pool'.resolving) = 1 /\ pool'.updateTimers = <<>>)]_vars
    /\ [][Len(pool'.resolving) < Len(pool.resolving) =>
              pool'.updateTimers = <<pool.ttl>>]_vars
    /\ [][(pool.phase = "live" /\ Len(pool'.resolving) > Len(pool.resolving)) =>
              (pool.updateTimers = <<0>> /\ pool'.updateTimers = <<>>)]_vars
    /\ (Refreshing /\ Len(pool.resolving) = 1)
           ~> (pool.stopped \/ Len(pool.updateTimers) = 1)
    /\ (Refreshing /\ Len(pool.updateTimers) = 1)
           ~> (pool.stopped \/ Len(pool.resolving) = 1)

\* C14 witness: two updates have completed, the timeout for the third is
\* pending, and of an earlier resolve a source has yet to call back.
C14_Witness ==
    /\ Refreshing
    /\ pool.updates = 2
    /\ pool.updateTimers = <<pool.ttl>>
    /\ pool.resolving = <<>>
    /\ pool.late # {}

Given(v) == v # <<>>

\* The options hold neither all of maxFailures, failureWindow, resetTimeout
\* nor all of failureRate, failureRateWindow, resetTimeout.
NoCompleteTriple(o) ==
    /\ ~(Given(o.maxFailures) /\ Given(o.failureWindow) /\ Given(o.resetTimeout))
    /\ ~(Given(o.failureRate) /\ Given(o.failureRateWindow) /\ Given(o.resetTimeout))

\* C15.  Configuration errors are fatal at construction: the constructor
\* called with options that hold no complete triple, or without
\* discoveryName or ttl, throws, and then there is no pool manager, no
\* resolve in flight and no timeout set; a pool whose constructor threw
\* never has any.
C15_ConstructionFails ==
    /\ pool.phase = "new" =>
           LET args == pool.args[1]
               r == EndpointPool(args)
               bad == \/ args.discoveryName = <<>>
                      \/ args.ttl = <<>>
                      \/ IF args.ejectOnErrorConfig = <<>> THEN FALSE
                         ELSE NoCompleteTriple(args.ejectOnErrorConfig[1])
           IN  bad => /\ r.pool.phase = "threw"
                      /\ r.pool.thrown # ""
                      /\ r.poolManager = <<>>
                      /\ r.pool.resolving = <<>>
                      /\ r.pool.updateTimers = <<>>
    /\ pool.phase = "threw" =>
           /\ pool.thrown # ""
           /\ pool.resolving = <<>>
           /\ pool.late = {}
           /\ pool.updateTimers = <<>>
           /\ pool.updates = 0
           /\ endpoints = <<>>

\* C15 witness: the constructor has thrown over the options.
C15_Witness ==
    /\ pool.phase = "threw"
    /\ pool.thrown = "Must supply either configuration to ejectOnErrorPoolManager"

Listed ==
    { <<CLOSED, OPEN>>, <<OPEN, HALF_OPEN_READY>>,
      <<HALF_OPEN_READY, HALF_OPEN_PENDING>>,
      <<HALF_OPEN_PENDING, CLOSED>>, <<HALF_OPEN_PENDING, OPEN>> }

\* C21.  The breaker's state machine has the listed transitions only: under
\* a breaker policy a new endpoint is CLOSED, and whenever an endpoint that
\* stays in the array changes state, the change is one of CLOSED -> OPEN,
\* OPEN -> HALF_OPEN_READY, HALF_OPEN_READY -> HALF_OPEN_PENDING,
\* HALF_OPEN_PENDING -> CLOSED, HALF_OPEN_PENDING -> OPEN.
C21_ListedTransitionsOnly ==
    [][/\ \A info \in Descriptors :
              config.kind # "default" => Registered(info).state = CLOSED
       /\ \A i \in Places :
              (/\ Len(endpoints') = Len(endpoints)
               /\ endpoints'[i].url = endpoints[i].url
               /\ endpoints'[i].state # endpoints[i].state) =>
                  <<endpoints[i].state, endpoints'[i].state>> \in Listed]_vars

\* C22.  Disabling is idempotent: disableEndpoint leaves an endpoint that is
\* OPEN as it is, state and timeout, so a failure reported while it is OPEN
\* leaves the timeout due resetTimeout after the endpoint became OPEN.
C22_DisableIdempotent ==
    \A i \in Places :
        endpoints[i].state = OPEN =>
            LET failed == onEndpointReturned(endpoints[i], TRUE)
            IN  /\ disableEndpoint(endpoints[i]) = endpoints[i]
                /\ failed.state = OPEN
                /\ failed.timers = endpoints[i].timers
                /\ failed.reopenTimeout = endpoints[i].reopenTimeout
                /\ failed.timers = <<config.resetTimeout - trace[i].openAge>>

\* C22 witness: under the rate policy with a window of 4, an endpoint that
\* became OPEN at its second failure has had two more reported since, and
\* its timeout is due.
C22_Witness ==
    \E i \in Places :
        /\ config.kind = "rate"
        /\ config.failureRateWindow = 4
        /\ endpoints[i].state = OPEN
        /\ endpoints[i].errors = 4
        /\ trace[i].openAge = config.resetTimeout
        /\ endpoints[i].timers = <<0>>

\* C23.  An endpoint has at most one live reopen timeout at any time, in the
\* array or spliced out of it, and disableEndpoint leaves it with exactly
\* one, whatever its state.
C23_OneTimer ==
    /\ \A i \in Places :
           /\ Len(endpoints[i].timers) <= 1
           /\ config.kind # "default" => Len(disableEndpoint(endpoints[i]).timers) = 1
           /\ \A err \in BOOLEAN : Len(onEndpointReturned(endpoints[i], err).timers) <= 1
    /\ \A d \in detached : Len(d.timers) <= 1

\* C23 witness: under the rate policy an endpoint is OPEN with three failures
\* counted, each of which reached disableEndpoint, and has one timeout.
C23_Witness ==
    \E i \in Places :
        /\ config.kind = "rate"
        /\ endpoints[i].state = OPEN
        /\ endpoints[i].errors = 3
        /\ Len(endpoints[i].timers) = 1

\* C24.  Under both policies a failure reported for an endpoint that is OPEN
\* already changes nothing: state, buffer and its offset, errors and reopen
\* timeout are as they were.
C24_FailureWhileOpen ==
    \A i \in Places :
        endpoints[i].state = OPEN =>
            onEndpointReturned(endpoints[i], TRUE) = endpoints[i]

Failures(outcomes) == Cardinality({ k \in 1..Len(outcomes) : outcomes[k] = 1 })

\* C25.  Under the rate policy errors is the number of failures among the
\* last failureRateWindow outcomes reported for the endpoint (all of them
\* while fewer were reported), it is the number of failure flags in the
\* buffer, and it lies in 0..failureRateWindow.
C25_ErrorCount ==
    config.kind = "rate" =>
        \A i \in Places :
            /\ endpoints[i].errors = Failures(trace[i].outcomes)
            /\ endpoints[i].errors = FailureFlags(endpoints[i].buffer)
            /\ endpoints[i].errors >= 0
            /\ endpoints[i].errors <= config.failureRateWindow

\* C25 witness: with a window of 2 an odd number of outcomes, three at
\* least, was reported, so one was evicted; the last two are a failure and
\* then a success.
C25_Witness ==
    \E i \in Places :
        /\ config.kind = "rate"
        /\ config.failureRateWindow = 2
        /\ trace[i].outcomes = <<0, 1>>
        /\ endpoints[i].buffer.offset = 1
        /\ endpoints[i].errors = 1

\* C26.  Under the rolling window a success reported while the endpoint is
\* not HALF_OPEN_PENDING changes nothing: state, buffer and its offset and
\* the timeout are as they were, so the recorded failures stay.
C26_SuccessKeepsHistory ==
    config.kind = "rolling" =>
        \A i \in Places :
            endpoints[i].state # HALF_OPEN_PENDING =>
                onEndpointReturned(endpoints[i], FALSE) = endpoints[i]

\* C26 witness: a CLOSED endpoint of the rolling window has a failure
\* recorded, still inside the window, and a caller holds its callback.
C26_Witness ==
    \E i \in Places :
        /\ config.kind = "rolling"
        /\ endpoints[i].state = CLOSED
        /\ trace[i].selected
        /\ trace[i].recorded # <<>>
        /\ trace[i].recorded[1] <= config.failureWindow
        /\ RingRead(endpoints[i].buffer) # <<>>

\* C29.  Under a breaker policy an endpoint of the array has a reopen
\* timeout pending exactly when it is OPEN, so the timeout's callback runs
\* on an OPEN endpoint only.
C29_TimerIffOpen ==
    config.kind # "default" =>
        \A i \in Places : endpoints[i].timers # <<>> <=> endpoints[i].state = OPEN

\* C29 witness: the timeout of an endpoint has fired, the endpoint is
\* HALF_OPEN_READY and has no timeout.
C29_Witness ==
    \E i \in Places :
        /\ config.kind # "default"
        /\ trace[i].probing
        /\ endpoints[i].state = HALF_OPEN_READY
        /\ endpoints[i].timers = <<>>

\* C27.  A RingBuffer of capacity c >= 1 after k writes: read() returns the
\* slot the next write will overwrite, empty while k < c and else the value
\* of write k - c + 1; each read before a write returned just that; the last
\* write stored its value where the pointer was, and the pointer is k modulo
\* c, within 0..c-1.
C27_RingBuffer ==
    LET c == ring.buffer.size
        k == Len(ring.written)
    IN  /\ c >= 1
        /\ RingRead(ring.buffer) = IF k < c THEN <<>> ELSE <<ring.written[k - c + 1]>>
        /\ RingRead(ring.buffer) = ring.buffer.buffer[(k % c) + 1]
        /\ \A j \in 1..k :
               ring.reads[j] = IF j <= c THEN <<>> ELSE <<ring.written[j - c]>>
        /\ k >= 1 => ring.buffer.buffer[((k - 1) % c) + 1] = <<ring.written[k]>>
        /\ ring.buffer.offset = k % c
        /\ ring.buffer.offset \in 0..(c - 1)
        /\ \A val \in RingValues :
               RingWrite(ring.buffer, val).offset = (ring.buffer.offset + 1) % c

\* C27 witness: a buffer of capacity 3 after five writes, the third of them
\* a 1 that read() returns, the others 0.
C27_Witness ==
    /\ ring.buffer.size = 3
    /\ ring.written = <<0, 0, 1, 0, 0>>
    /\ RingRead(ring.buffer) = <<1>>
    /\ ring.reads = <<<<>>, <<>>, <<>>, <<0>>, <<0>>>>

\* The places getNextEndpoint inspects when it starts at cursor off and
\* inspects n endpoints of l.
Inspected(off, n, l) == { ((off + i) % l) + 1 : i \in 0..(n - 1) }

\* C28.  The cursor is used modulo the current length: whatever cursor the
\* earlier selections left and however updateEndpoints changed the array
\* since, getNextEndpoint inspects places of the array only, starting at
\* the cursor modulo the length, and returns none or an endpoint of the
\* array, which the cursor then follows; the array keeps its endpoints.
C28_CursorModuloLength ==
    LET l == Len(endpoints)
        r == getNextEndpoint(endpoints, endpointOffset)
    IN  /\ endpointOffset \in 0..MaxDescs
        /\ r.inspected <= l
        /\ l > 0 => Inspected(endpointOffset, r.inspected, l) \subseteq Places
        /\ r.ep \in Places \cup {0}
        /\ r.ep # 0 =>
               /\ r.ep \in Inspected(endpointOffset, r.inspected, l)
               /\ r.offset = r.ep
               /\ isInPool(endpoints[r.ep])
        /\ (l > 0 /\ isInPool(endpoints[(endpointOffset % l) + 1])) =>
               r.ep = (endpointOffset % l) + 1
        /\ Len(r.endpoints) = l
        /\ \A i \in Places : r.endpoints[i].url = endpoints[i].url

\* C28 witness: the cursor was left at 2 and the array has shrunk to one
\* endpoint since, which getNextEndpoint returns.
C28_Witness ==
    /\ Len(endpoints) = 1
    /\ endpointOffset = 2
    /\ getNextEndpoint(endpoints, endpointOffset).ep = 1

\* C30.  After any sequence of updateEndpoints calls, lists that name an
\* identity twice included, no two endpoints of the array have the same
\* identity.
C30_DistinctIdentities ==
    \A i, j \in Places : endpoints[i].url = endpoints[j].url => i = j

\* C31.  While the endpoint is HALF_OPEN_PENDING only the probe's outcome
\* decides: the report of a selection made while the endpoint was CLOSED,
\* arriving now, leaves it HALF_OPEN_PENDING.
C31_EarlierFeedbackIgnored ==
    [][(/\ endpoints[1].state = HALF_OPEN_PENDING
        /\ calls.asProbe > 0
        /\ calls'.whileClosed = calls.whileClosed - 1) =>
           endpoints'[1].state = HALF_OPEN_PENDING]_vars

\* C34.  Under the rate policy an endpoint that is CLOSED has errors
\* strictly below maxErrorCount = failureRate * failureRateWindow.
C34_ClosedBelowThreshold ==
    config.kind = "rate" =>
        \A i \in Places :
            endpoints[i].state = CLOSED => ~ReachesMaxErrorCount(endpoints[i].errors)

\* C32.  Once stopUpdating has been called no resolve is started and the
\* endpoint set is not updated again, also when a resolve was in flight at
\* the call: its callback sets no timeout for another update.
C32_StoppedStaysStopped ==
    [][pool.stopped =>
           /\ Len(pool'.resolving) <= Len(pool.resolving)
           /\ Len(pool'.updateTimers) <= Len(pool.updateTimers)
           /\ [i \in 1..Len(endpoints') |-> endpoints'[i].url] =
                  [i \in Places |-> endpoints[i].url]]_vars

\* C33.  With N endpoints and no updateEndpoints in between, an endpoint
\* that is usable at each of N getNextEndpoint calls in a row is returned by
\* one of them, whatever happens to the other endpoints between the calls:
\* no endpoint has waited N calls.
C33_NoStarvation ==
    \A i \in Places : waited[i] < Len(endpoints)

\* C33 witness: under the rolling window, of two endpoints one has waited
\* one call while the other has been OPEN and is on probe.
C33_Witness ==
    \E i, j \in Places :
        /\ config.kind = "rolling"
        /\ Len(endpoints) = 2
        /\ waited[i] = 1
        /\ i # j
        /\ endpoints[j].state = HALF_OPEN_PENDING

====
